---- MODULE Spec2Model ----
(***************************************************************************)
(* Deck import (parse_anki_deck), review scheduling (calculate_next_review,*)
(* get_next_card) and the Streamlit session driven by main() of            *)
(* src/main.py.                                                            *)
(*                                                                         *)
(* Text is a sequence of characters.  The seven characters "[sound:" are   *)
(* one element, written "[sound:": the code only ever looks for that       *)
(* literal as a whole, it holds no separator and no white space, and it    *)
(* cannot overlap itself.  "\n" is a line break, "US" the byte 0x1F.       *)
(* Time is counted in minutes.  An optional value (None or a value) is a   *)
(* sequence of length 0 or 1.                                              *)
(***************************************************************************)
EXTENDS Integers, Sequences, FiniteSets, TLC

VARIABLES
    logged_in,      \* st.session_state.logged_in
    current_deck,   \* st.session_state.current_deck (optional deck name)
    progress,       \* st.session_state.progress
    daily_stats,    \* st.session_state.daily_stats
    decks,          \* st.session_state.decks : deck name -> list of cards
    media_files,    \* st.session_state.media_files
    disk,           \* data/<username>_progress.json (optional content)
    now,            \* the wall clock read by datetime.now()
    login_form,     \* username and password typed into the login form
    uploaded_file,  \* value of the file_uploader widget (optional file)
    button,         \* the button whose click started the current run
    pc,             \* position of the running script
    temp_dir,       \* the TemporaryDirectory of parse_anki_deck
    cards,          \* local list `cards` of parse_anki_deck
    ret,            \* value returned by parse_anki_deck
    msgs,           \* st.error / st.warning / st.success / st.info output of the run
    current_card,   \* local `current_card` of main (optional card)
    good_log,       \* observation: a card's due date after each Good judgment made at the present `now`
    parse_log,      \* observation: outcome of each parse_anki_deck call made on its own
    h_in,           \* argument given to a function applied on its own
    h_out           \* what that function returned

vars == <<logged_in, current_deck, progress, daily_stats, decks, media_files,
          disk, now, login_form, uploaded_file, button, pc, temp_dir, cards,
          ret, msgs, current_card, good_log, parse_log, h_in, h_out>>

-----------------------------------------------------------------------------
(* Bounds of the model *)

MaxTime == 2
MaxReviews == 2
MaxParses == 2
MaxFront == 4
MaxDeckLen == 2

-----------------------------------------------------------------------------
(* Optional values and text *)

None == <<>>
Some(x) == <<x>>

WhiteSpace == {" ", "\n"}

\* str.strip(): leading, then trailing white space removed
RECURSIVE lstrip(_)
lstrip(s) ==
    IF s # <<>> /\ Head(s) \in WhiteSpace THEN lstrip(Tail(s)) ELSE s

RECURSIVE rstrip(_)
rstrip(s) ==
    IF s # <<>> /\ s[Len(s)] \in WhiteSpace
    THEN rstrip(SubSeq(s, 1, Len(s) - 1))
    ELSE s

strip(s) == rstrip(lstrip(s))

\* str.split('\x1f'): always at least one piece
RECURSIVE split(_)
split(s) ==
    IF \E i \in 1..Len(s) : s[i] = "US"
    THEN LET i == CHOOSE k \in 1..Len(s) :
                     s[k] = "US" /\ \A j \in 1..(k - 1) : s[j] # "US"
         IN  <<SubSeq(s, 1, i - 1)>> \o split(SubSeq(s, i + 1, Len(s)))
    ELSE <<s>>

\* '[sound:' in front
contains_sound(s) == \E i \in 1..Len(s) : s[i] = "[sound:"

\* A match of \[sound:(.*?)\] starting at position i: the position of its
\* closing "]", or 0.  The lazy group stops at the first "]", and "." does
\* not match a line break.
match_end(s, i) ==
    IF i \in 1..Len(s) /\ s[i] = "[sound:"
          /\ \E j \in (i + 1)..Len(s) : s[j] \in {"]", "\n"}
    THEN LET j == CHOOSE k \in (i + 1)..Len(s) :
                     /\ s[k] \in {"]", "\n"}
                     /\ \A m \in (i + 1)..(k - 1) : s[m] \notin {"]", "\n"}
         IN  IF s[j] = "]" THEN j ELSE 0
    ELSE 0

\* re.search(r'\[sound:(.*?)\]', s): start of the leftmost match, or 0
re_search(s) ==
    IF \E i \in 1..Len(s) : match_end(s, i) # 0
    THEN CHOOSE i \in 1..Len(s) :
             match_end(s, i) # 0 /\ \A j \in 1..(i - 1) : match_end(s, j) = 0
    ELSE 0

\* audio_match.group(1)
group1(s, i) == SubSeq(s, i + 1, match_end(s, i) - 1)

\* re.sub(r'\[sound:.*?\]', '', s): every match removed, scanning left to right
RECURSIVE re_sub_from(_, _)
re_sub_from(s, p) ==
    IF p > Len(s) THEN <<>>
    ELSE IF match_end(s, p) # 0 THEN re_sub_from(s, match_end(s, p) + 1)
    ELSE <<s[p]>> \o re_sub_from(s, p + 1)

re_sub(s) == re_sub_from(s, 1)

\* str(note_id): the decimal digits of an integer
Digits == <<"0", "1", "2", "3", "4", "5", "6", "7", "8", "9">>

RECURSIVE str_nat(_)
str_nat(n) ==
    IF n < 10 THEN <<Digits[n + 1]>>
    ELSE str_nat(n \div 10) \o <<Digits[(n % 10) + 1]>>

str(n) == IF n < 0 THEN <<"-">> \o str_nat(0 - n) ELSE str_nat(n)

\* datetime.isoformat(): the text form of a time
isoformat(t) == <<"iso", str(t)>>

-----------------------------------------------------------------------------
(* Uploaded files: a file name and the bytes of an archive *)

NoteA == [id |-> 7, tags |-> <<"t">>,
          flds |-> Some(<<"a", " ", "[sound:", "x", "]", "US", " ", "b", " ">>)]
NoteB == [id |-> 12, tags |-> <<>>, flds |-> Some(<<"c", "US", "d", "US", "e">>)]
NoteShort == [id |-> 3, tags |-> <<>>, flds |-> Some(<<"f">>)]
NoteEmpty == [id |-> 5, tags |-> <<>>, flds |-> Some(<<>>)]
NoteNull == [id |-> 4, tags |-> <<>>, flds |-> None]

MediaOk == {<<"0", "x">>}

NoMedia == [kind |-> "json", dict |-> {}]

Archive(zip, members, db_ok, notes, media) ==
    [zip |-> zip, members |-> members, db_ok |-> db_ok, notes |-> notes,
     media |-> media]

GoodFile ==
    [name |-> <<"a", ".apkg">>,
     data |-> Archive(TRUE, {"collection.anki2", "media", "0"}, TRUE,
                      <<NoteA, NoteB>>, [kind |-> "json", dict |-> MediaOk])]
MixedFile ==
    [name |-> <<"a", ".apkg", ".apkg">>,
     data |-> Archive(TRUE, {"collection.anki2", "media"}, TRUE,
                      <<NoteB, NoteShort, NoteA, NoteEmpty>>,
                      [kind |-> "badjson", dict |-> {}])]
NotZipFile ==
    [name |-> <<"b", ".apkg">>,
     data |-> Archive(FALSE, {}, FALSE, <<>>, NoMedia)]
NoDbFile ==
    [name |-> <<"b", ".apkg">>,
     data |-> Archive(TRUE, {"media"}, FALSE, <<>>,
                      [kind |-> "json", dict |-> MediaOk])]
BadDbFile ==
    [name |-> <<"b", ".apkg">>,
     data |-> Archive(TRUE, {"collection.anki2"}, FALSE, <<>>, NoMedia)]
AllShortFile ==
    [name |-> <<"c", ".apkg">>,
     data |-> Archive(TRUE, {"collection.anki2"}, TRUE,
                      <<NoteShort, NoteEmpty>>, NoMedia)]
NullFldsFile ==
    [name |-> <<"c", ".apkg">>,
     data |-> Archive(TRUE, {"collection.anki2"}, TRUE,
                      <<NoteB, NoteNull>>, NoMedia)]
NoNameFile ==
    [name |-> <<".apkg">>,
     data |-> Archive(TRUE, {"collection.anki2", "media"}, TRUE,
                      <<NoteB>>, [kind |-> "binary", dict |-> {}])]

Files == {GoodFile, MixedFile, NotZipFile, NoDbFile, BadDbFile, AllShortFile,
          NullFldsFile, NoNameFile}

Message(level, text, n) == [level |-> level, text |-> text, n |-> n]

-----------------------------------------------------------------------------
(* parse_anki_deck *)

\* card_data with an id that changes with the time of the import
card_data_stamped(note_id, fields_list, tags, t) ==
    LET front == fields_list[1]
        m == IF contains_sound(front) THEN re_search(front) ELSE 0
    IN  [id |-> str(note_id + t),
         front |-> strip(IF m # 0 THEN strip(re_sub(front)) ELSE front),
         back |-> strip(fields_list[2]),
         audio_file |-> IF m # 0 THEN Some(group1(front, m)) ELSE None,
         tags |-> tags,
         due |-> isoformat(t)]

\* lines 56-75: the card made from one row with at least two fields
card_data(note_id, fields_list, tags, t) ==
    LET front == fields_list[1]
        m == IF contains_sound(front) THEN re_search(front) ELSE 0
    IN  [id |-> str(note_id),
         front |-> strip(IF m # 0 THEN strip(re_sub(front)) ELSE front),
         back |-> strip(fields_list[2]),
         audio_file |-> IF m # 0 THEN Some(group1(front, m)) ELSE None,
         tags |-> tags,
         due |-> isoformat(t)]

\* lines 50-75: the loop over the fetched rows
RECURSIVE rows_to_cards(_, _)
rows_to_cards(rows, t) ==
    IF rows = <<>> THEN <<>>
    ELSE LET row == Head(rows)
             fields_list == split(row.flds[1])
         IN  IF Len(fields_list) >= 2
             THEN <<card_data(row.id, fields_list, row.tags, t)>>
                      \o rows_to_cards(Tail(rows), t)
             ELSE rows_to_cards(Tail(rows), t)

\* fields.split raises when flds is not text
rows_raise(rows) == \E i \in 1..Len(rows) : rows[i].flds = None

\* the rows handled before the loop raises
rows_before_raise(rows) ==
    LET i == CHOOSE k \in 1..Len(rows) :
                 rows[k].flds = None /\ \A j \in 1..(k - 1) : rows[j].flds # None
    IN  SubSeq(rows, 1, i - 1)

\* a with block that leaves the directory behind
TemporaryDirectory_exit_leaks(dir) == dir

\* line 22, leaving the with block: the directory and its content are removed
TemporaryDirectory_exit(dir) == [exists |-> FALSE, files |-> {}]

NoTempDir == [exists |-> FALSE, files |-> {}]

ParsePcs == {"p_begin", "p_write", "p_extract", "p_check", "p_query",
             "p_media", "p_exit"}

\* lines 19-22
ParseBegin ==
    /\ pc = "p_begin"
    /\ cards' = <<>>
    /\ temp_dir' = [exists |-> TRUE, files |-> {}]
    /\ pc' = "p_write"
    /\ UNCHANGED <<logged_in, current_deck, progress, daily_stats, decks,
                   media_files, disk, now, login_form, uploaded_file, button,
                   ret, msgs, current_card, good_log, parse_log, h_in,
                   h_out>>

\* lines 25-27
ParseWrite ==
    /\ pc = "p_write"
    /\ temp_dir' = [temp_dir EXCEPT !.files = @ \cup {"temp.apkg"}]
    /\ pc' = "p_extract"
    /\ UNCHANGED <<logged_in, current_deck, progress, daily_stats, decks,
                   media_files, disk, now, login_form, uploaded_file, button,
                   cards, ret, msgs, current_card, good_log, parse_log,
                   h_in, h_out>>

\* lines 30-31, and 96-98 when the bytes are no zip archive
ParseExtract ==
    /\ pc = "p_extract"
    /\ LET data == uploaded_file[1].data
       IN  IF data.zip
           THEN /\ temp_dir' = [temp_dir EXCEPT !.files = @ \cup data.members]
                /\ pc' = "p_check"
                /\ UNCHANGED <<ret, msgs>>
           ELSE /\ msgs' = msgs \cup {Message("error", "not a valid package", 0)}
                /\ ret' = <<>>
                /\ pc' = "p_exit"
                /\ UNCHANGED temp_dir
    /\ UNCHANGED <<logged_in, current_deck, progress, daily_stats, decks,
                   media_files, disk, now, login_form, uploaded_file, button,
                   cards, current_card, good_log, parse_log, h_in,
                   h_out>>

\* lines 34-37
ParseCheckDb ==
    /\ pc = "p_check"
    /\ IF "collection.anki2" \in temp_dir.files
       THEN /\ pc' = "p_query"
            /\ UNCHANGED <<ret, msgs>>
       ELSE /\ msgs' = msgs \cup {Message("error", "collection.anki2 not found", 0)}
            /\ ret' = <<>>
            /\ pc' = "p_exit"
    /\ UNCHANGED <<logged_in, current_deck, progress, daily_stats, decks,
                   media_files, disk, now, login_form, uploaded_file, button,
                   temp_dir, cards, current_card, good_log, parse_log,
                   h_in, h_out>>

\* lines 40-81, with 77-79 (sqlite3.Error) and 99-101 (any other exception)
ParseQuery ==
    /\ pc = "p_query"
    /\ LET data == uploaded_file[1].data
       IN  IF ~data.db_ok
           THEN /\ msgs' = msgs \cup {Message("error", "database error", 0)}
                /\ ret' = <<>>
                /\ pc' = "p_exit"
                /\ UNCHANGED cards
           ELSE IF rows_raise(data.notes)
           THEN /\ cards' = cards \o rows_to_cards(rows_before_raise(data.notes), now)
                /\ msgs' = msgs \cup {Message("error", "error processing deck", 0)}
                /\ ret' = <<>>
                /\ pc' = "p_exit"
           ELSE /\ cards' = cards \o rows_to_cards(data.notes, now)
                /\ pc' = "p_media"
                /\ UNCHANGED <<ret, msgs>>
    /\ UNCHANGED <<logged_in, current_deck, progress, daily_stats, decks,
                   media_files, disk, now, login_form, uploaded_file, button,
                   temp_dir, current_card, good_log, parse_log, h_in,
                   h_out>>

\* lines 84-94, then the fall through to `return cards` of line 103
ParseMedia ==
    /\ pc = "p_media"
    /\ LET media == uploaded_file[1].data.media
       IN  IF "media" \notin temp_dir.files
           THEN UNCHANGED <<media_files, msgs>>
           ELSE IF media.kind = "json"
           THEN /\ media_files' = media.dict
                /\ UNCHANGED msgs
           ELSE IF media.kind = "badjson"
           THEN /\ msgs' = msgs \cup {Message("warning", "could not parse media file", 0)}
                /\ UNCHANGED media_files
           ELSE /\ msgs' = msgs \cup {Message("warning", "error processing media files", 0)}
                /\ UNCHANGED media_files
    /\ ret' = cards
    /\ pc' = "p_exit"
    /\ UNCHANGED <<logged_in, current_deck, progress, daily_stats, decks,
                   disk, now, login_form, uploaded_file, button, temp_dir,
                   cards, current_card, good_log, parse_log, h_in,
                   h_out>>

\* leaving the with block of line 22 on the way out of the function, whose
\* local `cards` ends with it
ParseExit ==
    /\ pc = "p_exit"
    /\ temp_dir' = TemporaryDirectory_exit(temp_dir)
    /\ cards' = <<>>
    /\ pc' = "returned"
    /\ UNCHANGED <<logged_in, current_deck, progress, daily_stats, decks,
                   media_files, disk, now, login_form, uploaded_file, button,
                   ret, msgs, current_card, good_log, parse_log, h_in, h_out>>

Parse ==
    \/ ParseBegin
    \/ ParseWrite
    \/ ParseExtract
    \/ ParseCheckDb
    \/ ParseQuery
    \/ ParseMedia
    \/ ParseExit

-----------------------------------------------------------------------------
(* The rest of the program *)

\* json.dump and json.load: a value and its text
json_dump(data) == <<"json", data>>
json_load(text) == text[2]

\* lines 120-124
load_user_data(username) ==
    IF disk # None THEN json_load(disk[1]) ELSE {}

\* lines 126-129
save_user_data(username, data) == Some(json_dump(data))

\* lines 131-132
verify_password(username, password) ==
    username = "yigit" /\ password = "12345678"

AgainMinutes == 10
GoodFactor == 2
MinutesPerDay == 1440

\* lines 134-138
calculate_next_review(interval, quality, t) ==
    IF quality = "again" THEN t + AgainMinutes
    ELSE t + (interval * GoodFactor) * MinutesPerDay

\* lines 140-147
get_next_card(deck) ==
    IF deck = <<>> THEN None ELSE Some(deck[1])

\* line 183: uploaded_file.name.replace('.apkg', '')
deck_name(name) == SelectSeq(name, LAMBDA c : c # ".apkg")

\* line 182 without its test
cards_accepted_any(c) == TRUE

\* line 182: `if cards:`
cards_accepted(c) == c # <<>>

\* line 184: st.session_state.decks[deck_name] = cards
store_deck(d, name, c) ==
    [k \in DOMAIN d \cup {name} |-> IF k = name THEN c ELSE d[k]]

\* `not st.session_state.current_deck` (line 209): None and '' both count
no_current_deck(cd) == cd = None \/ cd[1] = <<>>

Credentials == {[username |-> "yigit", password |-> "12345678"],
                [username |-> "yigit", password |-> "1234"],
                [username |-> "guest", password |-> "12345678"]}

SavedProgress == {<<"7", "seen">>}

\* a click or an edit of a widget: Streamlit runs main() again from the top
Interact ==
    /\ pc = "idle"
    /\ \E f \in {None} \cup {Some(x) : x \in Files},
          b \in {"none", "login", "again", "good", "play", "save"},
          c \in Credentials :
          /\ b = "none" \/ f = uploaded_file
          /\ IF logged_in
             THEN /\ b # "login"
                  /\ c = login_form
                  /\ b \in {"again", "good", "play"} => current_card # None
                  /\ b = "play" => current_card[1].audio_file \notin {None, Some(<<>>)}
                  /\ b \in {"again", "good"} => daily_stats.reviewed < MaxReviews
                  /\ b = "save" => ~no_current_deck(current_deck)
             ELSE /\ b \in {"none", "login"}
                  /\ f = uploaded_file
          /\ uploaded_file' = f
          /\ button' = b
          /\ login_form' = c
    /\ msgs' = {}
    /\ pc' = "main"
    /\ UNCHANGED <<logged_in, current_deck, progress, daily_stats, decks,
                   media_files, disk, now, temp_dir, cards, ret, current_card,
                   good_log, parse_log, h_in, h_out>>

\* lines 153-169
MainLogin ==
    /\ pc = "main"
    /\ ~logged_in
    /\ IF button = "login"
          /\ verify_password(login_form.username, login_form.password)
       THEN /\ logged_in' = TRUE
            /\ progress' = load_user_data(login_form.username)
            /\ button' = "none"
            /\ pc' = "main"
            /\ UNCHANGED msgs
       ELSE /\ msgs' = IF button = "login"
                       THEN msgs \cup {Message("error", "invalid credentials", 0)}
                       ELSE msgs
            /\ pc' = "idle"
            /\ UNCHANGED <<logged_in, progress, button>>
    /\ UNCHANGED <<current_deck, daily_stats, decks, media_files, disk, now,
                   login_form, uploaded_file, temp_dir, cards, ret,
                   current_card, good_log, parse_log, h_in, h_out>>

\* lines 172-181
MainUpload ==
    /\ pc = "main"
    /\ logged_in
    /\ current_card' = None
    /\ pc' = IF uploaded_file # None THEN "p_begin" ELSE "m_select"
    /\ UNCHANGED <<logged_in, current_deck, progress, daily_stats, decks,
                   media_files, disk, now, login_form, uploaded_file, button,
                   temp_dir, cards, ret, msgs, good_log, parse_log, h_in,
                   h_out>>

\* lines 182-185
MainStore ==
    /\ pc = "returned"
    /\ IF cards_accepted(ret)
       THEN /\ decks' = store_deck(decks, deck_name(uploaded_file[1].name), ret)
            /\ msgs' = msgs \cup {Message("success", "imported cards", Len(ret))}
       ELSE UNCHANGED <<decks, msgs>>
    /\ pc' = "m_select"
    /\ UNCHANGED <<logged_in, current_deck, progress, daily_stats,
                   media_files, disk, now, login_form, uploaded_file, button,
                   temp_dir, cards, ret, current_card, good_log, parse_log,
                   h_in, h_out>>

\* lines 190-211; the select box gives one of the deck names.  A run that
\* ends here ends main's local `cards` (ret) too.
MainSelect ==
    /\ pc = "m_select"
    /\ \E sel \in (IF DOMAIN decks = {} THEN {current_deck}
                   ELSE {Some(k) : k \in DOMAIN decks}) :
          /\ current_deck' = sel
          /\ IF no_current_deck(sel)
             THEN /\ msgs' = msgs \cup {Message("info", "upload and select a deck", 0)}
                  /\ ret' = <<>>
                  /\ pc' = "idle"
             ELSE /\ pc' = "m_judge"
                  /\ UNCHANGED <<msgs, ret>>
    /\ UNCHANGED <<logged_in, progress, daily_stats, decks, media_files, disk,
                   now, login_form, uploaded_file, button, temp_dir, cards,
                   current_card, good_log, parse_log, h_in, h_out>>

\* lines 232-233: the Again button
judge_again(deck, stats) ==
    [deck |-> deck, stats |-> [stats EXCEPT !.reviewed = @ + 1]]

\* lines 235-236: the Good button
judge_good(deck, stats) ==
    [deck |-> deck, stats |-> [stats EXCEPT !.reviewed = @ + 1]]

\* lines 213-236
MainJudge ==
    /\ pc = "m_judge"
    /\ LET name == current_deck[1]
           deck == decks[name]
           card == IF deck # <<>> THEN get_next_card(deck) ELSE None
           judged == card # None /\ button \in {"again", "good"}
           after == IF ~judged THEN [deck |-> deck, stats |-> daily_stats]
                    ELSE IF button = "again" THEN judge_again(deck, daily_stats)
                    ELSE judge_good(deck, daily_stats)
       IN  /\ current_card' = card
           /\ decks' = [decks EXCEPT ![name] = after.deck]
           /\ daily_stats' = after.stats
           /\ msgs' = IF card # None /\ button = "play"
                         /\ card[1].audio_file \notin {None, Some(<<>>)}
                      THEN msgs \cup {Message("info", "audio file", 0)}
                      ELSE msgs
           /\ good_log' = IF judged /\ button = "good"
                          THEN Append(good_log,
                                      [deck |-> name, id |-> card[1].id,
                                       due |-> after.deck[1].due])
                          ELSE good_log
    /\ pc' = "m_col2"
    /\ UNCHANGED <<logged_in, current_deck, progress, media_files, disk, now,
                   login_form, uploaded_file, button, temp_dir, cards, ret,
                   parse_log, h_in, h_out>>

\* lines 238-253, the end of the run
MainCol2 ==
    /\ pc = "m_col2"
    /\ IF button = "save"
       THEN /\ disk' = save_user_data(login_form.username, progress)
            /\ msgs' = msgs \cup {Message("success", "progress saved", 0)}
       ELSE UNCHANGED <<disk, msgs>>
    /\ ret' = <<>>
    /\ pc' = "idle"
    /\ UNCHANGED <<logged_in, current_deck, progress, daily_stats, decks,
                   media_files, now, login_form, uploaded_file, button,
                   temp_dir, cards, current_card, good_log, parse_log, h_in,
                   h_out>>

\* time passes between two runs
Tick ==
    /\ pc \in {"idle", "h_idle"}
    /\ now < MaxTime
    /\ now' = now + 1
    /\ good_log' = <<>>
    /\ UNCHANGED <<logged_in, current_deck, progress, daily_stats, decks,
                   media_files, disk, login_form, uploaded_file, button, pc,
                   temp_dir, cards, ret, msgs, current_card, parse_log, h_in,
                   h_out>>

\* lines 106-118 (init_session_state), before the first run
SessionInit ==
    /\ logged_in = FALSE
    /\ current_deck = None
    /\ progress = {}
    /\ daily_stats = [reviewed |-> 0, new |-> 0]
    /\ decks = <<>>
    /\ media_files = {}
    /\ login_form = [username |-> "guest", password |-> "12345678"]
    /\ uploaded_file = None
    /\ button = "none"
    /\ temp_dir = NoTempDir
    /\ cards = <<>>
    /\ ret = <<>>
    /\ msgs = {}
    /\ current_card = None
    /\ good_log = <<>>
    /\ parse_log = <<>>

Init ==
    /\ SessionInit
    /\ now = 0
    /\ disk \in {None, Some(json_dump(SavedProgress))}
    /\ pc = "idle"
    /\ h_in = None
    /\ h_out = None

Next ==
    \/ Interact
    \/ MainLogin
    \/ MainUpload
    \/ Parse
    \/ MainStore
    \/ MainSelect
    \/ MainJudge
    \/ MainCol2
    \/ Tick

Spec == Init /\ [][Next]_vars

-----------------------------------------------------------------------------
(* parse_anki_deck called on its own, several times in one session *)

ParseCall ==
    /\ pc = "h_idle"
    /\ Len(parse_log) < MaxParses
    /\ \E f \in Files : uploaded_file' = Some(f)
    /\ msgs' = {}
    /\ pc' = "p_begin"
    /\ UNCHANGED <<logged_in, current_deck, progress, daily_stats, decks,
                   media_files, disk, now, login_form, button, temp_dir,
                   cards, ret, current_card, good_log, parse_log, h_in, h_out>>

ParseReturn ==
    /\ pc = "returned"
    /\ parse_log' = Append(parse_log,
                           [file |-> uploaded_file[1], at |-> now, ret |-> ret,
                            msgs |-> msgs, media |-> media_files])
    /\ pc' = "h_idle"
    /\ UNCHANGED <<logged_in, current_deck, progress, daily_stats, decks,
                   media_files, disk, now, login_form, uploaded_file, button,
                   temp_dir, cards, ret, msgs, current_card, good_log, h_in,
                   h_out>>

InitParse ==
    /\ SessionInit
    /\ now = 0
    /\ disk = None
    /\ pc = "h_idle"
    /\ h_in = None
    /\ h_out = None

NextParse ==
    \/ ParseCall
    \/ Parse
    \/ ParseReturn
    \/ Tick

SpecParse == InitParse /\ [][NextParse]_vars

-----------------------------------------------------------------------------
(* The loop body of lines 50-75 applied to one row whose first field is any *)
(* short text                                                               *)

FrontChars == {"a", "b", " ", "\n", "[sound:", "]"}

Texts(n) == UNION {[1..k -> FrontChars] : k \in 0..n}

RowOf(front) ==
    [id |-> 7, tags |-> <<"t">>, flds |-> Some(front \o <<"US", " ", "b">>)]

MapRow ==
    /\ pc = "h_ready"
    /\ h_out' = Some(rows_to_cards(<<RowOf(h_in)>>, now))
    /\ pc' = "h_done"
    /\ UNCHANGED <<logged_in, current_deck, progress, daily_stats, decks,
                   media_files, disk, now, login_form, uploaded_file, button,
                   temp_dir, cards, ret, msgs, current_card, good_log,
                   parse_log, h_in>>

InitFront ==
    /\ SessionInit
    /\ now = 0
    /\ disk = None
    /\ pc = "h_ready"
    /\ h_in \in Texts(MaxFront)
    /\ h_out = None

NextFront == MapRow

SpecFront == InitFront /\ [][NextFront]_vars

-----------------------------------------------------------------------------
(* get_next_card and calculate_next_review applied to any deck and interval *)

MaxInterval == 2

SchedCard(k, t) ==
    [id |-> str(k), front |-> <<"a">>, back |-> <<"b">>, audio_file |-> None,
     tags |-> <<>>, due |-> isoformat(t)]

SchedDecks ==
    UNION {{[k \in 1..n |-> SchedCard(k, f[k])] : f \in [1..n -> 0..MaxTime]} :
           n \in 0..MaxDeckLen}

SchedSelect ==
    /\ pc = "h_ready"
    /\ h_out' = [op |-> "get_next_card", card |-> get_next_card(h_in.deck)]
    /\ pc' = "h_done"
    /\ UNCHANGED <<logged_in, current_deck, progress, daily_stats, decks,
                   media_files, disk, now, login_form, uploaded_file, button,
                   temp_dir, cards, ret, msgs, current_card, good_log,
                   parse_log, h_in>>

SchedReview ==
    /\ pc = "h_ready"
    /\ h_out' = [op |-> "calculate_next_review",
                 at |-> calculate_next_review(h_in.interval, h_in.quality, now)]
    /\ pc' = "h_done"
    /\ UNCHANGED <<logged_in, current_deck, progress, daily_stats, decks,
                   media_files, disk, now, login_form, uploaded_file, button,
                   temp_dir, cards, ret, msgs, current_card, good_log,
                   parse_log, h_in>>

InitSched ==
    /\ SessionInit
    /\ now \in 0..MaxTime
    /\ disk = None
    /\ pc = "h_ready"
    /\ h_in \in [deck : SchedDecks, interval : 1..MaxInterval,
                 quality : {"again", "good"}]
    /\ h_out = None

NextSched ==
    \/ SchedSelect
    \/ SchedReview

SpecSched == InitSched /\ [][NextSched]_vars

-----------------------------------------------------------------------------
(* Vocabulary of the properties *)

\* the integer written by a sequence of decimal digits
DigitValue(d) == CHOOSE v \in 0..9 : Digits[v + 1] = d

RECURSIVE int_of(_)
int_of(ds) ==
    IF Len(ds) = 1 THEN DigitValue(ds[1])
    ELSE 10 * int_of(SubSeq(ds, 1, Len(ds) - 1)) + DigitValue(ds[Len(ds)])

\* the time a card is due: its `due` text read back
next_review(card) == int_of(card.due[2])

\* number of fields packed in a note's text
FieldCount(flds) == 1 + Cardinality({i \in 1..Len(flds) : flds[i] = "US"})

Usable(note) == note.flds # None /\ FieldCount(note.flds[1]) >= 2

UsableRows(notes) == SelectSeq(notes, Usable)

\* the outcome the parser is to report for an archive
Outcome(data) ==
    IF ~data.zip THEN "InvalidArchive"
    ELSE IF "collection.anki2" \notin data.members THEN "MissingDatabase"
    ELSE IF ~data.db_ok \/ \E i \in 1..Len(data.notes) : data.notes[i].flds = None
    THEN "DatabaseError"
    ELSE IF UsableRows(data.notes) = <<>> THEN "EmptyDeck"
    ELSE "Success"

-----------------------------------------------------------------------------
(* C1 *)

\* C1: get_next_card returns no card if and only if every card of the deck has
\* next_review strictly greater than now.
C1_NoCardsDueIff ==
    (pc = "h_done" /\ h_out.op = "get_next_card") =>
        (h_out.card = None <=>
            \A i \in 1..Len(h_in.deck) : next_review(h_in.deck[i]) > now)

-----------------------------------------------------------------------------
(* C2 *)

\* C2: once the Again judgment has been applied to a card at time now, the
\* card's next_review is now + 10 minutes.
C2_AgainReschedules ==
    (pc = "m_col2" /\ button = "again" /\ current_card # None) =>
        next_review(decks[current_deck[1]][1]) = now + AgainMinutes

-----------------------------------------------------------------------------
(* C3 *)

\* C3: Good judgments applied repeatedly to the same card with now held fixed
\* leave strictly increasing next_review values: each later one is strictly
\* later than every earlier one.
C3_GoodStrictlyIncreasing ==
    \A j, k \in 1..Len(good_log) :
        (j < k /\ good_log[j].deck = good_log[k].deck
               /\ good_log[j].id = good_log[k].id) =>
            int_of(good_log[k].due[2]) > int_of(good_log[j].due[2])

-----------------------------------------------------------------------------
(* C4 *)

\* C4: the caller of parse_anki_deck can tell the outcomes InvalidArchive,
\* MissingDatabase, DatabaseError, EmptyDeck and success apart: two calls with
\* different outcomes never return the same value.
C4_OutcomesDistinguishable ==
    \A j, k \in 1..Len(parse_log) :
        Outcome(parse_log[j].file.data) # Outcome(parse_log[k].file.data) =>
            parse_log[j].ret # parse_log[k].ret

-----------------------------------------------------------------------------
(* C5 *)

\* C5: for a valid archive with N notes of which M have at least 2 fields, the
\* parser returns exactly M cards, in the row order of those M notes, and
\* reports N - M skipped rows.
C5_CardsAndSkipReport ==
    \A k \in 1..Len(parse_log) :
        LET data == parse_log[k].file.data
            kept == UsableRows(data.notes)
        IN  Outcome(data) \in {"Success", "EmptyDeck"} =>
                /\ Len(parse_log[k].ret) = Len(kept)
                /\ \A i \in 1..Len(kept) : parse_log[k].ret[i].id = str(kept[i].id)
                /\ \E m \in parse_log[k].msgs :
                       m.text = "skipped rows" /\ m.n = Len(data.notes) - Len(kept)

\* The part of C5 the code does satisfy (under SpecParse): exactly the M
\* cards of the rows with at least 2 fields, in row order.
C5_CardsInRowOrder ==
    \A k \in 1..Len(parse_log) :
        LET data == parse_log[k].file.data
            kept == UsableRows(data.notes)
        IN  Outcome(data) \in {"Success", "EmptyDeck"} =>
                /\ Len(parse_log[k].ret) = Len(kept)
                /\ \A i \in 1..Len(kept) : parse_log[k].ret[i].id = str(kept[i].id)

-----------------------------------------------------------------------------
(* C6 *)

\* C6: the temporary extraction directory exists only while parse_anki_deck is
\* running: whenever no parse is under way, on whatever path the last one
\* ended, the directory and every file extracted into it are gone.
C6_ScratchRemoved ==
    /\ pc \notin ParsePcs => (~temp_dir.exists /\ temp_dir.files = {})
    /\ pc \in ParsePcs \ {"p_begin"} => temp_dir.exists

\* a parse that extracted the archive and then failed on the database has returned
C6_Witness ==
    /\ pc = "returned"
    /\ Message("error", "database error", 0) \in msgs
    /\ ~temp_dir.exists

-----------------------------------------------------------------------------
(* C7 *)

\* C7: when the archive holds a media index that fails to parse, the parser
\* still returns all the cards and the media mapping in effect afterwards is
\* the empty mapping.
C7_BadMediaGivesEmptyMapping ==
    (/\ pc = "returned"
     /\ uploaded_file # None
     /\ Outcome(uploaded_file[1].data) = "Success"
     /\ "media" \in uploaded_file[1].data.members
     /\ uploaded_file[1].data.media.kind # "json") =>
        /\ Len(ret) = Len(UsableRows(uploaded_file[1].data.notes))
        /\ media_files = {}

-----------------------------------------------------------------------------
(* C8 *)

SameButDue(c, d) ==
    /\ c.id = d.id
    /\ c.front = d.front
    /\ c.back = d.back
    /\ c.audio_file = d.audio_file
    /\ c.tags = d.tags

\* C8 as stated: two parses of the same bytes, at any two times, return
\* identical card sequences.
C8_ParseIdempotent ==
    \A j, k \in 1..Len(parse_log) :
        parse_log[j].file = parse_log[k].file =>
            parse_log[j].ret = parse_log[k].ret

\* C8 amended: two parses of the same bytes return card sequences of the same
\* length that agree, position by position, on id, front, back, audio_file and
\* tags; each card's due is the time of the parse that made it.
C8_ParseIdempotentButDue ==
    \A j, k \in 1..Len(parse_log) :
        parse_log[j].file = parse_log[k].file =>
            /\ Len(parse_log[j].ret) = Len(parse_log[k].ret)
            /\ \A i \in 1..Len(parse_log[j].ret) :
                   /\ SameButDue(parse_log[j].ret[i], parse_log[k].ret[i])
                   /\ next_review(parse_log[j].ret[i]) = parse_log[j].at

\* the same deck has been parsed at two different times
C8_Witness ==
    /\ Len(parse_log) = 2
    /\ parse_log[1].file = parse_log[2].file
    /\ parse_log[1].at # parse_log[2].at
    /\ Len(parse_log[1].ret) = 2

-----------------------------------------------------------------------------
(* C9 *)

SoundCount(s) == Cardinality({i \in 1..Len(s) : s[i] = "[sound:"})

\* position of the one marker's "[sound:", and of the "]" that closes it
MarkerOpen(s) == CHOOSE i \in 1..Len(s) : s[i] = "[sound:"
MarkerClose(s) ==
    CHOOSE j \in (MarkerOpen(s) + 1)..Len(s) :
        s[j] = "]" /\ \A m \in (MarkerOpen(s) + 1)..(j - 1) : s[m] # "]"

HasOneMarker(s) ==
    /\ SoundCount(s) = 1
    /\ \E j \in (MarkerOpen(s) + 1)..Len(s) : s[j] = "]"

HasNoMarker(s) ==
    \A i \in 1..Len(s) :
        s[i] = "[sound:" => \A j \in (i + 1)..Len(s) : s[j] # "]"

\* C9: a front field with exactly one [sound:X] marker gives a front without
\* the marker (the other text kept, trimmed) and audio reference X; a front
\* field with no marker gives no audio reference and the field trimmed.
C9_MarkerExtracted ==
    pc = "h_done" =>
        LET card == h_out[1][1]
            s == h_in
        IN  /\ HasOneMarker(s) =>
                /\ card.audio_file =
                       Some(SubSeq(s, MarkerOpen(s) + 1, MarkerClose(s) - 1))
                /\ card.front =
                       strip(SubSeq(s, 1, MarkerOpen(s) - 1)
                                 \o SubSeq(s, MarkerClose(s) + 1, Len(s)))
            /\ HasNoMarker(s) =>
                /\ card.audio_file = None
                /\ card.front = strip(s)

\* no line break stands between a "[sound:" and the first "]" after it
NoBreakInMarker(s) ==
    \A i \in 1..Len(s) :
        s[i] = "[sound:" =>
            \A j \in (i + 1)..Len(s) :
                s[j] = "\n" => \E m \in (i + 1)..(j - 1) : s[m] = "]"

\* The part of C9 the code does satisfy (under SpecFront): the same statement
\* for the fields in which no marker holds a line break.
C9_MarkerExtractedNoBreak ==
    (pc = "h_done" /\ NoBreakInMarker(h_in)) => C9_MarkerExtracted

-----------------------------------------------------------------------------
(* C10 *)

DecksNonEmptyAndCurrentKnown ==
    /\ \A d \in DOMAIN decks : Len(decks[d]) >= 1
    /\ current_deck \in {None} \cup {Some(d) : d \in DOMAIN decks}

\* C10: at every point of a session every stored deck holds at least one card
\* and current_deck is unset or names a stored deck; and an upload whose parse
\* returned no cards leaves the deck table as it was.
C10_SessionInvariant ==
    /\ []DecksNonEmptyAndCurrentKnown
    /\ [][(pc = "returned" /\ ret = <<>>) => decks' = decks]_vars

\* with a deck stored and selected, an upload has just returned no cards
C10_Witness ==
    /\ pc = "m_select"
    /\ uploaded_file # None
    /\ ret = <<>>
    /\ current_deck # None
    /\ DOMAIN decks # {}

====
